---- MODULE Spec2Model ----
(***************************************************************************)
(* The snake engine of src/src/game.rs as a state machine: the Game        *)
(* struct's fields are the variables, Game::new and Game::from_string      *)
(* build the game, Game::update advances it one tick and Game::place_food  *)
(* is the rejection-sampling loop both constructors and update call.      *)
(*                                                                         *)
(* Board indices are the code's: 0-based, row-major (idx = y*width + x).   *)
(* cells is a function on 0..width*height-1.  The body (the VecDeque       *)
(* snake.coordinates) is a sequence whose first element is the front       *)
(* (head) and whose last element is the back (tail).                       *)
(***************************************************************************)
EXTENDS Integers, Sequences, FiniteSets, TLC

VARIABLES
    cells,          \* Game.cells
    width,          \* Game.width
    height,         \* Game.height
    coordinates,    \* Game.snake.coordinates, front first
    direction,      \* Game.snake.direction
    score,          \* Game.score
    game_over,      \* Game.game_over
    grow_on_eat,    \* Game.grow_on_eat
    pc,             \* "start" | "place_food" | "ready" | "error"
    err,            \* the Err(..) from_string returned, <<>> when none
    encoded,        \* the text handed to from_string, <<>> for new
    call,           \* the call in progress or last completed: [op, input]
    pre             \* the game's fields when that call began

vars == <<cells, width, height, coordinates, direction, score, game_over,
          grow_on_eat, pc, err, encoded, call, pre>>

game == <<cells, width, height, coordinates, direction, score, game_over,
          grow_on_eat>>

----------------------------------------------------------------------------
(* Bounds of the model. *)

MaxWidth == 5

MaxHeight == 4

MaxScore == 5

MaxTokens == 3

----------------------------------------------------------------------------
(* enum Cell, enum Direction *)

Cell == {"Plain", "Snake", "Wall", "Food"}

Direction == {"Up", "Down", "Left", "Right", "None"}

\* usize is pointer-wide; TLC's integers are 32-bit, and every coordinate of
\* the model is far below 2^30, so wrapping_sub is taken modulo 2^UsizeBits.
UsizeBits == 30

UsizeModulus == 2 ^ UsizeBits

\* a subtraction that stops at 0 where the code's wraps round
saturating_sub(a, b) == IF a >= b THEN a - b ELSE 0

wrapping_sub(a, b) == (a - b + UsizeModulus) % UsizeModulus

front(q) == q[1]

back(q) == q[Len(q)]

push_front(q, v) == <<v>> \o q

pop_back(q) == SubSeq(q, 1, Len(q) - 1)

Snapshot == [cells |-> cells, coordinates |-> coordinates,
             direction |-> direction, score |-> score,
             game_over |-> game_over]

PlainCells(cs) == {i \in DOMAIN cs : cs[i] = "Plain"}

----------------------------------------------------------------------------
(* Game::new *)

\* the two border loops over a vec![Cell::Plain; width * height]
BorderCells(w, h) ==
    [i \in 0 .. (w * h - 1) |->
        IF \/ \E x \in 0 .. (w - 1) : i = x \/ i = x + (h - 1) * w
           \/ \E y \in 0 .. (h - 1) : i = y * w \/ i = y * w + w - 1
        THEN "Wall" ELSE "Plain"]

snake_pos(w) == 2 * w + 2

NewCells(w, h) == [BorderCells(w, h) EXCEPT ![snake_pos(w)] = "Snake"]

New(w, h, g) ==
    /\ pc = "start"
    /\ pre' = Snapshot
    /\ call' = [op |-> "new", input |-> "None"]
    /\ cells' = NewCells(w, h)
    /\ width' = w
    /\ height' = h
    /\ coordinates' = push_front(<<>>, snake_pos(w))
    /\ direction' = "Right"
    /\ score' = 0
    /\ game_over' = FALSE
    /\ grow_on_eat' = g
    /\ pc' = "place_food"
    /\ UNCHANGED <<err, encoded>>

----------------------------------------------------------------------------
(* Game::from_string.  A &str is a sequence of one-character strings.      *)

Digits == {"0", "1", "2", "3", "4", "5", "6", "7", "8", "9"}

\* char::is_digit(10)
is_digit(c) == c \in Digits

\* char::is_alphabetic, on the letters the model's texts are written in
is_alphabetic(c) == c \in {"B", "E", "Q", "S", "W", "x"}

DigitValue(c) ==
    CASE c = "0" -> 0 [] c = "1" -> 1 [] c = "2" -> 2 [] c = "3" -> 3
      [] c = "4" -> 4 [] c = "5" -> 5 [] c = "6" -> 6 [] c = "7" -> 7
      [] c = "8" -> 8 [] c = "9" -> 9

\* str::parse::<usize>: -1 stands for Err (no digit, or a character that is
\* none); the model's numbers stay far below usize::MAX
RECURSIVE ParseDigits(_, _)
ParseDigits(s, acc) ==
    IF s = <<>> THEN acc
    ELSE IF ~is_digit(Head(s)) THEN -1
    ELSE ParseDigits(Tail(s), acc * 10 + DigitValue(Head(s)))

parse_usize(s) == IF s = <<>> THEN -1 ELSE ParseDigits(s, 0)

\* str::split(sep).collect(): always at least one part, <<>> for the empty text
RECURSIVE SplitFrom(_, _, _)
SplitFrom(s, sep, part) ==
    IF s = <<>> THEN <<part>>
    ELSE IF Head(s) = sep THEN <<part>> \o SplitFrom(Tail(s), sep, <<>>)
    ELSE SplitFrom(Tail(s), sep, Append(part, Head(s)))

split(s, sep) == SplitFrom(s, sep, <<>>)

\* str::starts_with
starts_with(s, c) == s # <<>> /\ Head(s) = c

\* lines 99-106: the index after the digits that follow position i
RECURSIVE DigitsEnd(_, _)
DigitsEnd(row, j) ==
    IF j <= Len(row) /\ is_digit(row[j]) THEN DigitsEnd(row, j + 1) ELSE j

\* the loop without its snake_found check: every Snake cell is taken
RECURSIVE EmitNoSnakeCheck(_, _, _)
EmitNoSnakeCheck(st, cell_type, count) ==
    IF count = 0 THEN st
    ELSE EmitNoSnakeCheck(
              [cells |-> Append(st.cells, cell_type),
               snake_coords |-> IF cell_type = "Snake"
                                THEN push_front(st.snake_coords, Len(st.cells))
                                ELSE st.snake_coords,
               snake_found |-> st.snake_found \/ cell_type = "Snake",
               err |-> st.err],
              cell_type, count - 1)

\* lines 116-125: `for _ in 0..count`, on the decoder's state
\* [cells, snake_coords, snake_found, err]
RECURSIVE Emit(_, _, _)
Emit(st, cell_type, count) ==
    IF count = 0 THEN st
    ELSE IF cell_type = "Snake" /\ st.snake_found
    THEN [st EXCEPT !.err = <<"Multiple snakes">>]
    ELSE Emit([cells |-> Append(st.cells, cell_type),
               snake_coords |-> IF cell_type = "Snake"
                                THEN push_front(st.snake_coords, Len(st.cells))
                                ELSE st.snake_coords,
               snake_found |-> st.snake_found \/ cell_type = "Snake",
               err |-> st.err],
              cell_type, count - 1)

\* a letter without digits taken as one cell: unwrap_or(1)
RunLengthDefaultOne(num_str) ==
    LET n == parse_usize(num_str) IN IF n < 0 THEN 1 ELSE n

\* line 107: num_str.parse().unwrap_or(0)
RunLength(num_str) ==
    LET n == parse_usize(num_str) IN IF n < 0 THEN 0 ELSE n

\* lines 93-126: `while let Some(c) = chars.next()` over one row
RECURSIVE DecodeRow(_, _, _)
DecodeRow(row, i, st) ==
    IF st.err # <<>> \/ i > Len(row) THEN st
    ELSE LET c == row[i] IN
         IF ~is_alphabetic(c) THEN DecodeRow(row, i + 1, st)
         ELSE LET j == DigitsEnd(row, i + 1)
                  count == RunLength(SubSeq(row, i + 1, j - 1))
              IN  IF c \notin {"W", "E", "S"}
                  THEN [st EXCEPT !.err = <<"Unknown char", c>>]
                  ELSE DecodeRow(row, j,
                           Emit(st, CASE c = "W" -> "Wall"
                                      [] c = "E" -> "Plain"
                                      [] c = "S" -> "Snake", count))

\* line 92: `for row_str in parts.iter().skip(1)`
RECURSIVE DecodeRows(_, _, _)
DecodeRows(parts, k, st) ==
    IF st.err # <<>> \/ k > Len(parts) THEN st
    ELSE DecodeRows(parts, k + 1, DecodeRow(parts[k], 1, st))

Failed(e) == [err |-> e, cells |-> <<>>, width |-> 0, height |-> 0,
              snake_coords |-> <<>>]

\* lines 129-138: the two checks after the decoding loop
CheckDecoded(st, w, h) ==
    IF Len(st.cells) # w * h
    THEN Failed(<<"Dimension mismatch", w * h, Len(st.cells)>>)
    ELSE IF ~st.snake_found THEN Failed(<<"No snake found">>)
    ELSE [err |-> <<>>,
          cells |-> [i \in 0 .. (Len(st.cells) - 1) |-> st.cells[i + 1]],
          width |-> w, height |-> h, snake_coords |-> st.snake_coords]

\* lines 71-138: Err(err), or the fields of the Game built at line 140
Decode(compressed) ==
    LET parts == split(compressed, "|")
        dims == parts[1]
        dims_parts == split(Tail(dims), "x")
        h == parse_usize(dims_parts[1])
        w == parse_usize(dims_parts[2])
        st == DecodeRows(parts, 2, [cells |-> <<>>, snake_coords |-> <<>>,
                                    snake_found |-> FALSE, err |-> <<>>])
    IN  IF Len(parts) = 0 THEN Failed(<<"Empty string">>)
        ELSE IF ~starts_with(dims, "B") THEN Failed(<<"Invalid dimension format">>)
        ELSE IF Len(dims_parts) # 2 THEN Failed(<<"Invalid dimension format">>)
        ELSE IF h < 0 THEN Failed(<<"Invalid height">>)
        ELSE IF w < 0 THEN Failed(<<"Invalid width">>)
        ELSE IF st.err # <<>> THEN Failed(st.err)
        ELSE CheckDecoded(st, w, h)

from_string(compressed, g) ==
    LET d == Decode(compressed) IN
    /\ pc = "start"
    /\ pre' = Snapshot
    /\ call' = [op |-> "from_string", input |-> "None"]
    /\ encoded' = compressed
    /\ err' = d.err
    /\ IF d.err # <<>>
       THEN /\ pc' = "error"
            /\ UNCHANGED game
       ELSE /\ cells' = d.cells
            /\ width' = d.width
            /\ height' = d.height
            /\ coordinates' = d.snake_coords
            /\ direction' = "Right"
            /\ score' = 0
            /\ game_over' = FALSE
            /\ grow_on_eat' = g
            /\ pc' = "place_food"

\* The texts from_string is given: a first part followed by up to MaxTokens
\* pieces, so that every return of the decoder is taken.
Headers ==
    { <<>>, <<"B">>, <<"W", "1", "x", "2">>, <<"B", "1">>,
      <<"B", "1", "x", "2", "x", "1">>, <<"B", "x", "1">>, <<"B", "1", "x">>,
      <<"B", "1", "x", "1">>, <<"B", "1", "x", "2">>, <<"B", "2", "x", "1">>,
      <<"B", "1", "x", "3">>, <<"B", "2", "x", "2">> }

Pieces ==
    { <<"|">>, <<"W", "1">>, <<"E">>, <<"E", "1">>, <<"E", "2">>, <<"S">>,
      <<"S", "1">>, <<"S", "2">>, <<"Q", "1">>, <<"2">> }

RECURSIVE Texts(_)
Texts(n) ==
    IF n = 0 THEN {<<>>}
    ELSE LET shorter == Texts(n - 1)
         IN  shorter \cup {t \o p : t \in shorter, p \in Pieces}

Inputs == {hd \o t : hd \in Headers, t \in Texts(MaxTokens)}

----------------------------------------------------------------------------
(* Game::place_food: one iteration of the loop per step.  A sampled index  *)
(* that is not Plain leaves the game as it is and the loop goes round.     *)

\* the sampled cell tested for `!= Wall` where the code tests `== Plain`
PlaceFoodHitNotWall(idx) ==
    /\ pc = "place_food"
    /\ cells[idx] \in {"Plain", "Snake"}
    /\ cells' = [cells EXCEPT ![idx] = "Food"]
    /\ pc' = "ready"
    /\ UNCHANGED <<width, height, coordinates, direction, score, game_over,
                   grow_on_eat, err, encoded, call, pre>>

PlaceFoodHit(idx) ==
    /\ pc = "place_food"
    /\ cells[idx] = "Plain"
    /\ cells' = [cells EXCEPT ![idx] = "Food"]
    /\ pc' = "ready"
    /\ UNCHANGED <<width, height, coordinates, direction, score, game_over,
                   grow_on_eat, err, encoded, call, pre>>

PlaceFoodMiss(idx) ==
    /\ pc = "place_food"
    /\ cells[idx] # "Plain"
    /\ UNCHANGED vars

place_food ==
    \E idx \in DOMAIN cells : PlaceFoodHit(idx) \/ PlaceFoodMiss(idx)

----------------------------------------------------------------------------
(* Game::update *)

Opposite(cur, input) ==
    \/ cur = "Up" /\ input = "Down"
    \/ cur = "Down" /\ input = "Up"
    \/ cur = "Left" /\ input = "Right"
    \/ cur = "Right" /\ input = "Left"

\* lines 192-194 left out: an input of None is kept as the direction
ResolveDirectionKeepsNone(cur, input, len) ==
    IF len > 1
    THEN CASE Opposite(cur, input) -> cur
           [] cur = "None" -> input
           [] input = "None" -> cur
           [] OTHER -> input
    ELSE input

\* the input taken as given, a reversal included, whatever the length
ResolveDirectionNoReject(cur, input, len) ==
    IF input = "None" THEN cur ELSE input

\* lines 172-194: the direction the tick is played in
ResolveDirection(cur, input, len) ==
    LET matched ==
            IF len > 1
            THEN CASE Opposite(cur, input) -> cur
                   [] cur = "None" -> input
                   [] input = "None" -> cur
                   [] OTHER -> input
            ELSE input
    IN  IF matched = "None" THEN cur ELSE matched

\* lines 202-208: (next_x, next_y)
NextXY(dir, head_x, head_y) ==
    CASE dir = "Up" -> <<head_x, wrapping_sub(head_y, 1)>>
      [] dir = "Down" -> <<head_x, head_y + 1>>
      [] dir = "Left" -> <<wrapping_sub(head_x, 1), head_y>>
      [] dir = "Right" -> <<head_x + 1, head_y>>
      [] dir = "None" -> <<head_x, head_y>>

\* line 210
OutOfBounds(next_x, next_y, w, h) == next_x >= w \/ next_y >= h

\* the arm matching Cell::Snake alone: a Wall is walked into
CollidesSnakeOnly(cs, coords, next_idx) ==
    /\ cs[next_idx] = "Snake"
    /\ next_idx # back(coords)

\* the Wall | Snake arm without its tail exception
CollidesNoTailException(cs, coords, next_idx) ==
    cs[next_idx] \in {"Wall", "Snake"}

\* lines 217-227: the Wall | Snake arm with its tail exception
Collides(cs, coords, next_idx) ==
    /\ cs[next_idx] \in {"Wall", "Snake"}
    /\ next_idx # back(coords)

\* the Food test always false: eating is an ordinary move
IsFoodNever(cs, next_idx, over) == FALSE

\* line 229, reached only when the move is legal
IsFood(cs, next_idx, over) == ~over /\ cs[next_idx] = "Food"

\* the tail popped on every legal move, growth mode included
BodyAfterAlwaysPop(coords, next_idx, over, is_food, grow) ==
    IF over THEN coords ELSE pop_back(push_front(coords, next_idx))

\* push_front(next_idx) done before the bounds and collision checks
BodyAfterPushFirst(coords, next_idx, over, is_food, grow) ==
    IF over THEN push_front(coords, next_idx)
    ELSE IF is_food /\ grow THEN push_front(coords, next_idx)
    ELSE pop_back(push_front(coords, next_idx))

\* lines 231, 239, 245: push_front(next_idx), then pop_back unless the snake
\* ate in growth mode; untouched when the tick ends the game (lines 212, 223)
BodyAfter(coords, next_idx, over, is_food, grow) ==
    IF over THEN coords
    ELSE IF is_food /\ grow THEN push_front(coords, next_idx)
    ELSE pop_back(push_front(coords, next_idx))

\* lines 241 and 247 left out: the target is not marked Snake again after
\* the tail's cell is reset
CellsAfterNoRemark(cs, coords, next_idx, over, is_food, grow) ==
    IF over THEN cs
    ELSE IF is_food /\ grow THEN [cs EXCEPT ![next_idx] = "Snake"]
    ELSE [[cs EXCEPT ![next_idx] = "Snake"]
              EXCEPT ![back(push_front(coords, next_idx))] = "Plain"]

\* the popped tail's cell left typed Snake
CellsAfterKeepsTail(cs, coords, next_idx, over, is_food, grow) ==
    IF over THEN cs ELSE [cs EXCEPT ![next_idx] = "Snake"]

\* lines 232, 240-241, 246-247: the target is marked Snake; where the tail is
\* popped its cell goes back to Plain and the target is marked Snake again
CellsAfter(cs, coords, next_idx, over, is_food, grow) ==
    IF over THEN cs
    ELSE IF is_food /\ grow THEN [cs EXCEPT ![next_idx] = "Snake"]
    ELSE [[[cs EXCEPT ![next_idx] = "Snake"]
               EXCEPT ![back(push_front(coords, next_idx))] = "Plain"]
               EXCEPT ![next_idx] = "Snake"]

\* the score raised on every legal move
ScoreAfterCountsMoves(sc, over, is_food) == IF over THEN sc ELSE sc + 1

\* line 235
ScoreAfter(sc, over, is_food) == IF is_food THEN sc + 1 ELSE sc

\* the game_over check at the top of update left out
UpdateNeverReturnsEarly(over) == FALSE

\* line 168
UpdateReturnsEarly(over) == over

\* lines 168-170
UpdateNoop(input) ==
    /\ UpdateReturnsEarly(game_over)
    /\ UNCHANGED <<cells, width, height, coordinates, direction, score,
                   game_over, grow_on_eat, pc, err, encoded>>

\* lines 172-248; place_food (lines 237, 242) runs next, under pc
UpdateTick(input) ==
    LET new_dir == ResolveDirection(direction, input, Len(coordinates))
        head_idx == front(coordinates)
        head_x == head_idx % width
        head_y == head_idx \div width
        next == NextXY(new_dir, head_x, head_y)
        next_idx == next[2] * width + next[1]
        over == \/ OutOfBounds(next[1], next[2], width, height)
                \/ Collides(cells, coordinates, next_idx)
        is_food == IsFood(cells, next_idx, over)
    IN  /\ ~UpdateReturnsEarly(game_over)
        /\ direction' = new_dir
        /\ game_over' = (game_over \/ over)
        /\ coordinates' = BodyAfter(coordinates, next_idx, over, is_food, grow_on_eat)
        /\ cells' = CellsAfter(cells, coordinates, next_idx, over, is_food, grow_on_eat)
        /\ score' = ScoreAfter(score, over, is_food)
        /\ pc' = IF is_food THEN "place_food" ELSE "ready"
        /\ UNCHANGED <<width, height, grow_on_eat, err, encoded>>

update(input) ==
    /\ pc = "ready"
    /\ score < MaxScore
    /\ pre' = Snapshot
    /\ call' = [op |-> "update", input |-> input]
    /\ UpdateNoop(input) \/ UpdateTick(input)

----------------------------------------------------------------------------

Init ==
    /\ cells = <<>>
    /\ width = 0
    /\ height = 0
    /\ coordinates = <<>>
    /\ direction = "None"
    /\ score = 0
    /\ game_over = FALSE
    /\ grow_on_eat = FALSE
    /\ pc = "start"
    /\ err = <<>>
    /\ encoded = <<>>
    /\ call = [op |-> "none", input |-> "None"]
    /\ pre = [cells |-> <<>>, coordinates |-> <<>>, direction |-> "None",
              score |-> 0, game_over |-> FALSE]

construct ==
    /\ pc = "start"
    /\ \/ \E w \in 3 .. MaxWidth, h \in 3 .. MaxHeight, g \in BOOLEAN : New(w, h, g)
       \/ \E s \in Inputs, g \in BOOLEAN : from_string(s, g)

Next ==
    \/ construct
    \/ place_food
    \/ \E input \in Direction : update(input)

Spec == Init /\ [][Next]_vars

\* rand's gen_range draws every index with positive probability, so a loop
\* that has a Plain cell to find does not miss it for ever
FairSpec == Spec /\ WF_vars(\E idx \in DOMAIN cells : PlaceFoodHit(idx))

----------------------------------------------------------------------------
(* What the last call did, read off the state: the fields before the call  *)
(* are in pre, the direction the tick was played in is snake.direction.    *)

Ticked == call.op = "update" /\ ~pre.game_over

OldHead == front(pre.coordinates)

OldTail == back(pre.coordinates)

OldX == OldHead % width

OldY == OldHead \div width

Body(q) == {q[k] : k \in DOMAIN q}

FoodCells(cs) == {i \in DOMAIN cs : cs[i] = "Food"}

\* the played move would leave the grid
LeavesGrid ==
    \/ direction = "Left" /\ OldX = 0
    \/ direction = "Up" /\ OldY = 0
    \/ direction = "Right" /\ OldX = width - 1
    \/ direction = "Down" /\ OldY = height - 1

StepOf(d) ==
    CASE d = "Up" -> 0 - width
      [] d = "Down" -> width
      [] d = "Left" -> 0 - 1
      [] d = "Right" -> 1
      [] d = "None" -> 0

\* the index the head was sent to, meaningful when ~LeavesGrid
Target == OldHead + StepOf(direction)

AteFood == Ticked /\ ~LeavesGrid /\ pre.cells[Target] = "Food"

BuiltByNew == pc \in {"place_food", "ready"} /\ encoded = <<>>

Ring(w, h) ==
    {i \in 0 .. (w * h - 1) :
        (i \div w) \in {0, h - 1} \/ (i % w) \in {0, w - 1}}

----------------------------------------------------------------------------
(* C1: for every width >= 3 and height >= 3 the state new returns has the  *)
(* whole outermost ring typed Wall, a body of exactly one index lying      *)
(* strictly inside the ring, and exactly one Food cell.                    *)
C1_NewBoard ==
    (call.op = "new" /\ pc = "ready") =>
        /\ \A i \in Ring(width, height) : cells[i] = "Wall"
        /\ Len(coordinates) = 1
        /\ front(coordinates) \in DOMAIN cells \ Ring(width, height)
        /\ Cardinality(FoodCells(cells)) = 1

(* C2: with a body of length >= 2 and the game not over, an update whose   *)
(* target is the current tail index does not end the game and leaves the   *)
(* head on that cell, typed Snake; an update whose target is any other     *)
(* body index ends the game.                                               *)
C2_TailFollow ==
    (Ticked /\ Len(pre.coordinates) >= 2 /\ ~LeavesGrid
        /\ Target \in Body(pre.coordinates)) =>
        IF Target = OldTail
        THEN ~game_over /\ front(coordinates) = Target /\ cells[Target] = "Snake"
        ELSE game_over

C2_Witness ==
    /\ Ticked /\ Len(pre.coordinates) >= 2 /\ ~LeavesGrid
    /\ Target = OldTail
    /\ ~game_over /\ front(coordinates) = OldTail

(* C3: when the input is the opposite of the current direction, a body of  *)
(* length >= 2 keeps the current direction and the head advances in it,    *)
(* while a body of length 1 adopts the input and the head moves in the     *)
(* input direction (the head stays only where the tick ends the game).     *)
C3_Reversal ==
    (Ticked /\ Opposite(pre.direction, call.input)) =>
        LET played == IF Len(pre.coordinates) >= 2
                      THEN pre.direction ELSE call.input
        IN  /\ direction = played
            /\ ~game_over => front(coordinates) = OldHead + StepOf(played)
            /\ game_over => front(coordinates) = OldHead

C3_Witness ==
    /\ Ticked /\ Opposite(pre.direction, call.input)
    /\ Len(pre.coordinates) >= 2
    /\ ~game_over
    /\ front(coordinates) = OldHead + StepOf(pre.direction)

(* C4: with grow_on_eat, an update whose target cell is Food makes the     *)
(* body one longer and the score one higher in that tick, and every index  *)
(* of the body before the tick is still in the body after it.              *)
C4_Growth ==
    (AteFood /\ grow_on_eat) =>
        /\ Len(coordinates) = Len(pre.coordinates) + 1
        /\ score = pre.score + 1
        /\ Body(pre.coordinates) \subseteq Body(coordinates)

C4_Witness ==
    /\ AteFood /\ grow_on_eat
    /\ Len(pre.coordinates) >= 2
    /\ Len(coordinates) = Len(pre.coordinates) + 1
    /\ pc = "ready"

(* C5 as stated: with grow_on_eat false, after an update whose target cell *)
(* is Food the score is one higher, the body length is unchanged, the old  *)
(* tail cell is Plain and the new head cell is Snake.  Stated for the      *)
(* boards of from_string and the boards of new of at least 4x4, on which   *)
(* new puts the snake inside the ring.                                     *)
C5_ConstantLengthOriginal ==
    (AteFood /\ ~grow_on_eat /\ pc = "ready"
        /\ (BuiltByNew => width >= 4 /\ height >= 4)) =>
        /\ score = pre.score + 1
        /\ Len(coordinates) = Len(pre.coordinates)
        /\ cells[OldTail] = "Plain"
        /\ cells[front(coordinates)] = "Snake"

(* C5 amended: with grow_on_eat false, an update whose target cell is Food *)
(* makes the score one higher, keeps the body length, leaves the new head  *)
(* cell Snake, and resets the old tail cell to Plain before it places the  *)
(* new food: when update returns the old tail cell is Plain or holds the   *)
(* food just placed.                                                       *)
C5_ConstantLength ==
    (AteFood /\ ~grow_on_eat) =>
        /\ score = pre.score + 1
        /\ Len(coordinates) = Len(pre.coordinates)
        /\ cells[front(coordinates)] = "Snake"
        /\ front(coordinates) = Target
        /\ pc = "place_food" => cells[OldTail] = "Plain"
        /\ pc = "ready" =>
              \/ cells[OldTail] = "Plain"
              \/ cells[OldTail] = "Food" /\ FoodCells(cells) = {OldTail}

C5_Witness ==
    /\ AteFood /\ ~grow_on_eat /\ pc = "ready"
    /\ score = pre.score + 1
    /\ cells[OldTail] = "Food"

(* C6: game_over is terminal: once it is true, no step changes the cells,  *)
(* the body, the direction, the score or game_over.                        *)
C6_Terminal ==
    [][game_over =>
          /\ game_over'
          /\ UNCHANGED <<cells, coordinates, direction, score>>]_vars

C6_Witness ==
    /\ call.op = "update" /\ pre.game_over /\ game_over
    /\ call.input # pre.direction /\ call.input # "None"

(* C7: an update whose move would leave the grid ends the game, and after  *)
(* any update that does not end the game the new head is orthogonally      *)
(* adjacent to the old head: the head never wraps to another row or column.*)
C7_NoWrap ==
    Ticked =>
        /\ LeavesGrid => game_over
        /\ ~game_over =>
              LET x == front(coordinates) % width
                  y == front(coordinates) \div width
              IN  \/ y = OldY /\ (x = OldX + 1 \/ x + 1 = OldX)
                  \/ x = OldX /\ (y = OldY + 1 \/ y + 1 = OldY)

C7_Witness ==
    /\ Ticked /\ LeavesGrid /\ game_over
    /\ direction = "Left" /\ OldX = 0 /\ width > 1

(* C8: on a tick in which update ends the game, the cells, the body and    *)
(* the score after the call are those before it.                           *)
C8_GameOverFrame ==
    (Ticked /\ game_over) =>
        /\ cells = pre.cells
        /\ coordinates = pre.coordinates
        /\ score = pre.score

\* the second case of C2 is reached as well: the head runs into a body
\* segment that is not the tail, and the tick ends the game
C2_HitsBody ==
    /\ Ticked /\ ~LeavesGrid /\ game_over
    /\ Target \in Body(pre.coordinates) /\ Target # OldTail

C8_Witness ==
    /\ Ticked /\ game_over /\ ~LeavesGrid
    /\ pre.cells[Target] = "Snake"
    /\ direction # pre.direction

(* C9: in growth mode, for a game built by new, every update in which the  *)
(* snake eats places a new Food cell and returns: the place_food it calls  *)
(* always has a Plain cell to find.  Stated for the boards of at least 4x4 *)
(* alone, on which new puts the snake inside the ring.                     *)
C9_FoodAlwaysSpawns ==
    (BuiltByNew /\ width >= 4 /\ height >= 4 /\ grow_on_eat
        /\ call.op = "update" /\ pc = "place_food") =>
        PlainCells(cells) # {}

(* C10: for every text that passes all the decode checks, from_string      *)
(* returns Ok with a game that has exactly one Food cell, a one-segment    *)
(* body at the index of the S cell, direction Right, score 0 and           *)
(* game_over false.                                                        *)
C10_FromStringOk ==
    (call.op = "from_string" /\ err = <<>>) =>
        /\ pc = "place_food" => PlainCells(cells) # {}
        /\ pc = "ready" =>
              /\ Cardinality(FoodCells(cells)) = 1
              /\ Len(coordinates) = 1
              /\ cells[front(coordinates)] = "Snake"
              /\ direction = "Right"
              /\ score = 0
              /\ ~game_over

----------------------------------------------------------------------------
(* The text from_string was given, read as the format describes it: a      *)
(* first part B<height>x<width>, then parts that are runs of tokens, a     *)
(* token being one of the letters W, E, S followed by its decimal digits.  *)

Decoded == call.op = "from_string"

Parts == split(encoded, "|")

Rows == Tail(Parts)

AllDigits(s) == s # <<>> /\ \A k \in DOMAIN s : s[k] \in Digits

HeaderParses ==
    /\ Parts[1] # <<>>
    /\ Parts[1][1] = "B"
    /\ \E n \in 2 .. (Len(Parts[1]) - 2) :
          /\ Parts[1][n + 1] = "x"
          /\ AllDigits(SubSeq(Parts[1], 2, n))
          /\ AllDigits(SubSeq(Parts[1], n + 2, Len(Parts[1])))

\* the two numbers of a header that parses
RECURSIVE NumberOf(_)
NumberOf(s) ==
    IF s = <<>> THEN 0
    ELSE 10 * NumberOf(SubSeq(s, 1, Len(s) - 1)) + DigitValue(s[Len(s)])

HeaderX == CHOOSE n \in DOMAIN Parts[1] : Parts[1][n] = "x"

HeaderHeight == NumberOf(SubSeq(Parts[1], 2, HeaderX - 1))

HeaderWidth == NumberOf(SubSeq(Parts[1], HeaderX + 1, Len(Parts[1])))

\* every part after the first is a run of W/E/S tokens
TokenRows ==
    \A r \in DOMAIN Rows :
        /\ \A k \in DOMAIN Rows[r] : Rows[r][k] \in {"W", "E", "S"} \cup Digits
        /\ Rows[r] # <<>> => Rows[r][1] \in {"W", "E", "S"}

RECURSIVE Joined(_)
Joined(rows) == IF rows = <<>> THEN <<>> ELSE Head(rows) \o Joined(Tail(rows))

\* the tokens of a run, as <<letter, run-length>>, a bare letter counting 0
RECURSIVE TokensOf(_)
TokensOf(s) ==
    IF s = <<>> THEN <<>>
    ELSE LET rest == Tail(s)
             n == IF \E k \in DOMAIN rest : rest[k] \notin Digits
                  THEN (CHOOSE k \in DOMAIN rest :
                           /\ rest[k] \notin Digits
                           /\ \A m \in 1 .. (k - 1) : rest[m] \in Digits) - 1
                  ELSE Len(rest)
         IN  <<<<Head(s), NumberOf(SubSeq(rest, 1, n))>>>>
                 \o TokensOf(SubSeq(rest, n + 1, Len(rest)))

CellOf(letter) ==
    CASE letter = "W" -> "Wall" [] letter = "E" -> "Plain" [] letter = "S" -> "Snake"

RECURSIVE Expand(_)
Expand(tokens) ==
    IF tokens = <<>> THEN <<>>
    ELSE [k \in 1 .. Head(tokens)[2] |-> CellOf(Head(tokens)[1])]
             \o Expand(Tail(tokens))

\* the cells the token stream stands for, in order
StreamCells == Expand(TokensOf(Joined(Rows)))

SnakeCount == Cardinality({k \in DOMAIN StreamCells : StreamCells[k] = "Snake"})

----------------------------------------------------------------------------
(* C11: from_string returns a distinct error for each failure condition;   *)
(* in particular the empty text yields the empty-input error, which is not *)
(* the error of a non-empty first part that does not start with B.         *)
C11_EmptyInputError ==
    (Decoded /\ encoded = <<>>) =>
        /\ err = <<"Empty string">>
        /\ err # Decode(<<"W", "1", "x", "2">>).err

(* C12: with a header that parses and parts made of W/E/S tokens, a text   *)
(* is accepted only if its stream holds exactly one Snake cell; a stream   *)
(* with two or more Snake cells (an S of run-length >= 2, or two S tokens  *)
(* of run-length >= 1) returns the multiple-snakes error, and a stream     *)
(* with no Snake cell (bare S tokens included) and width*height cells      *)
(* returns the no-snake error.                                             *)
C12_OneSnake ==
    (Decoded /\ HeaderParses /\ TokenRows) =>
        /\ err = <<>> => SnakeCount = 1
        /\ SnakeCount >= 2 => err = <<"Multiple snakes">>
        /\ (SnakeCount = 0 /\ Len(StreamCells) = HeaderWidth * HeaderHeight)
              => err = <<"No snake found">>

C12_Witness ==
    /\ Decoded /\ HeaderParses /\ TokenRows
    /\ SnakeCount = 2 /\ Len(StreamCells) = HeaderWidth * HeaderHeight
    /\ err = <<"Multiple snakes">>

\* the no-snake case of C12 is reached as well, with a bare S in the stream
C12_BareSnake ==
    /\ Decoded /\ HeaderParses /\ TokenRows
    /\ \E k \in DOMAIN TokensOf(Joined(Rows)) :
          TokensOf(Joined(Rows))[k] = <<"S", 0>>
    /\ SnakeCount = 0 /\ Len(StreamCells) = HeaderWidth * HeaderHeight
    /\ err = <<"No snake found">>

----------------------------------------------------------------------------
Built == pc \in {"place_food", "ready"}

InUpdateFood == pc = "place_food" /\ call.op = "update"

(* C13: place_food called on a board with a Plain cell eventually returns, *)
(* and on return exactly one formerly Plain cell is Food while every other *)
(* cell, the body, the score and game_over are unchanged; called with no   *)
(* Plain cell it never returns.                                            *)
C13_PlaceFood ==
    /\ (pc = "place_food" /\ PlainCells(cells) # {}) ~> (pc = "ready")
    /\ [][(pc = "place_food" /\ pc' = "ready") =>
             /\ \E idx \in PlainCells(cells) :
                   cells' = [cells EXCEPT ![idx] = "Food"]
             /\ UNCHANGED <<coordinates, direction, score, game_over,
                            width, height, grow_on_eat>>]_vars
    /\ [][(pc = "place_food" /\ PlainCells(cells) = {}) =>
             (pc' = "place_food" /\ UNCHANGED game)]_vars

C13_Witness ==
    /\ pc = "ready" /\ call.op = "update" /\ AteFood
    /\ Cardinality(FoodCells(cells)) = 1
    /\ FoodCells(cells) \subseteq PlainCells(pre.cells) \cup {OldTail}

\* the call that never returns is reached as well
C13_Stuck == pc = "place_food" /\ PlainCells(cells) = {}

(* C14: in every state reached by completed calls, every index of the body *)
(* maps to a cell typed Snake and the body holds no index twice.           *)
C14_BodyIsSnake ==
    Built =>
        /\ \A k \in DOMAIN coordinates : cells[coordinates[k]] = "Snake"
        /\ Cardinality(Body(coordinates)) = Len(coordinates)

C14_Witness ==
    /\ pc = "ready" /\ Ticked /\ ~game_over
    /\ Len(coordinates) >= 4
    /\ front(coordinates) = OldTail

(* C15: the tail index is never a Wall-typed cell, so an update whose      *)
(* target cell is Wall always ends the game.                               *)
C15_WallEndsGame ==
    /\ Built => cells[back(coordinates)] # "Wall"
    /\ (Ticked /\ ~LeavesGrid /\ pre.cells[Target] = "Wall") => game_over

C15_Witness ==
    /\ Ticked /\ ~LeavesGrid /\ pre.cells[Target] = "Wall"
    /\ game_over /\ Len(coordinates) >= 2

(* C16: snake.direction is never None, so an update with input None on a   *)
(* game that is not over keeps the direction and moves the head one cell   *)
(* in it or ends the game: the head never stays in place.                  *)
C16_NeverNone ==
    /\ Built => direction # "None"
    /\ (Ticked /\ call.input = "None") =>
          /\ direction = pre.direction
          /\ ~game_over =>
                /\ front(coordinates) = OldHead + StepOf(pre.direction)
                /\ front(coordinates) # OldHead

C16_Witness ==
    /\ Ticked /\ call.input = "None" /\ ~game_over
    /\ front(coordinates) = OldHead + StepOf(pre.direction)
    /\ pre.direction # "Right"

(* C18: in every state reached by completed calls, game_over states        *)
(* included, the board holds exactly one Food cell.                        *)
C18_OneFood == pc = "ready" => Cardinality(FoodCells(cells)) = 1

C18_Witness ==
    /\ pc = "ready" /\ game_over /\ score >= 2
    /\ Cardinality(FoodCells(cells)) = 1

(* C19: the body length is score + 1 when grow_on_eat is true and 1 when   *)
(* it is false.                                                            *)
C19_LengthIsScore ==
    Built => Len(coordinates) = IF grow_on_eat THEN score + 1 ELSE 1

C19_Witness ==
    /\ pc = "ready" /\ grow_on_eat /\ score >= 3
    /\ Len(coordinates) = score + 1

(* C20: with grow_on_eat false, whenever update calls place_food a Plain   *)
(* cell exists (the tail cell vacated in the same tick), so the update     *)
(* completes under fair sampling.                                          *)
C20_ConstantModeCompletes ==
    /\ []((InUpdateFood /\ ~grow_on_eat) =>
             (PlainCells(cells) # {} /\ cells[OldTail] = "Plain"))
    /\ (InUpdateFood /\ ~grow_on_eat) ~> (pc = "ready")

C20_Witness ==
    /\ InUpdateFood /\ ~grow_on_eat
    /\ PlainCells(cells) = {OldTail}

====
